---------------------------- MODULE Spec2Model ----------------------------
(***************************************************************************)
(* Model of the poyuta daily quiz bot (src/poyuta/main.py and              *)
(* src/poyuta/utils.py): the quiz lifecycle (newquiz, updatequiz,          *)
(* answerquiz, the play button, the daily result post) over the tables     *)
(* Quiz, User, UserStartQuizTimestamp and Answer, and the answer matcher   *)
(* (process_user_input and re.search).                                     *)
(*                                                                         *)
(* A handler of discord.py runs on one event loop: it runs without         *)
(* interruption from one await to the next, and other handlers may run     *)
(* while it is suspended at an await.  Each action below is one such       *)
(* uninterrupted stretch of a handler.                                     *)
(***************************************************************************)
EXTENDS Integers, Sequences, FiniteSets, Bags, TLC

VARIABLES
    now,         \* datetime.now(): [date |-> ordinal, tod |-> second of the day]
    quizzes,     \* table Quiz, in insertion order; a row's id is its index
    users,       \* table User: set of [id, name, is_admin]
    timestamps,  \* table UserStartQuizTimestamp, in insertion order
    answers,     \* table Answer, in insertion order
    pending,     \* bag of answerquiz handlers suspended at an await
    posted,      \* a NewQuizView with its buttons has been sent to the channel
    last,        \* what the last handler stretch did: the response it sent
    call         \* the last call of a function made on its own: its arguments
                 \* and what it returned

vars == <<now, quizzes, users, timestamps, answers, pending, posted, last, call>>

-----------------------------------------------------------------------------
(* Bounds of the model *)

MaxQuizzes == 2
MaxAnswers == 2
MaxPending == 2
MaxTicks == 2

-----------------------------------------------------------------------------
(* Text: a str is a sequence of code points *)

AsciiLow == " !\"#$%&'()*+,-./0123456789:;<=>?@ABCDEFGHIJKLMNOPQRSTUVWXYZ[\\]^_"

AsciiHigh == "abcdefghijklmnopqrstuvwxyz{|}~"

\* the code point of the ASCII character c (a one-character literal)
ord(c) ==
    IF \E i \in 1..Len(AsciiLow) : SubSeq(AsciiLow, i, i) = c
    THEN 31 + (CHOOSE i \in 1..Len(AsciiLow) : SubSeq(AsciiLow, i, i) = c)
    ELSE 96 + (CHOOSE i \in 1..Len(AsciiHigh) : SubSeq(AsciiHigh, i, i) = c)

\* the str with the characters of the ASCII literal s
U(s) == [i \in 1..Len(s) |-> ord(SubSeq(s, i, i))]

BACKSLASH == ord("\\")

SPACE == ord(" ")

STAR == ord("*")

NEWLINE == 10

\* str.lower() on one character: ASCII, Latin-1, Latin Extended-A, Greek and
\* Cyrillic capitals; every other character of the model's texts is caseless
lower(c) ==
    CASE c \in 65..90 -> c + 32
      [] c \in (192..222) \ {215} -> c + 32
      [] c \in (256..303) \cup (306..311) \cup (330..375) ->
            IF c % 2 = 0 THEN c + 1 ELSE c
      [] c \in (313..328) \cup (377..382) -> IF c % 2 = 1 THEN c + 1 ELSE c
      [] c \in (913..939) \ {930} -> c + 32
      [] c \in 1040..1071 -> c + 32
      [] c \in 1024..1039 -> c + 80
      [] OTHER -> c

str_lower(s) == [i \in 1..Len(s) |-> lower(s[i])]

\* re.IGNORECASE on a literal: equal up to case, and the two extra
\* equivalences of the re module that touch a rule's input (i ~ dotless i,
\* s ~ long s)
ignorecase_eq(c, d) ==
    \/ lower(c) = lower(d)
    \/ {lower(c), lower(d)} \in {{ord("i"), 305}, {ord("s"), 383}}

\* old occurs in s at index i
occurs_at(s, i, old, ignorecase) ==
    /\ i + Len(old) - 1 <= Len(s)
    /\ \A k \in 1..Len(old) :
          IF ignorecase THEN ignorecase_eq(s[i + k - 1], old[k])
          ELSE s[i + k - 1] = old[k]

Min(S) == CHOOSE x \in S : \A y \in S : x <= y

RECURSIVE replace_from(_, _, _, _, _)
\* s[i..] with every non-overlapping occurrence of old, left to right,
\* replaced by new (str.replace, and Pattern.sub of an escaped literal)
replace_from(s, i, old, new, ignorecase) ==
    LET hits == {j \in i..Len(s) : occurs_at(s, j, old, ignorecase)}
    IN  IF hits = {} THEN SubSeq(s, i, Len(s))
        ELSE SubSeq(s, i, Min(hits) - 1) \o new
             \o replace_from(s, Min(hits) + Len(old), old, new, ignorecase)

str_replace(s, old, new) == replace_from(s, 1, old, new, FALSE)

\* the characters re.escape puts a backslash before
special_punctuation == "()[]{}?*+-|^$\\.&~# "

special_chars ==
    {ord(SubSeq(special_punctuation, i, i)) : i \in 1..Len(special_punctuation)}
        \cup (9..13)

RECURSIVE re_escape(_)
re_escape(s) ==
    IF s = <<>> THEN <<>>
    ELSE (IF Head(s) \in special_chars THEN <<BACKSLASH, Head(s)>> ELSE <<Head(s)>>)
         \o re_escape(Tail(s))

escape_and_replace(input_str) ==
    LET escaped_str == re_escape(input_str)
        unspaced == str_replace(escaped_str, <<BACKSLASH, SPACE>>, <<SPACE>>)
    IN  str_replace(unspaced, <<BACKSLASH, STAR>>, <<STAR>>)

\* the replacement rules, in the order of the table
ANIME_REGEX_REPLACE_RULES ==
    <<
       [input |-> <<316>>,
        replace |-> U("[") \o <<316, 315>> \o U("]")],
       [input |-> U("l"),
        replace |-> U("[l") \o <<741, 316, 315, 923>> \o U("]")],
       [input |-> <<378>>,
        replace |-> U("[") \o <<378, 377>> \o U("]")],
       [input |-> U("z"),
        replace |-> U("[z") \o <<378, 377>> \o U("]")],
       [input |-> U("ou"),
        replace |-> U("(ou|") \o <<333>> \o U("|o)")],
       [input |-> U("oo"),
        replace |-> U("(oo|") \o <<333>> \o U("|o)")],
       [input |-> U("oh"),
        replace |-> U("(oh|") \o <<333>> \o U("|o)")],
       [input |-> U("wo"),
        replace |-> U("(wo|o)")],
       [input |-> U("o"),
        replace |-> U("([o") \o <<333, 243, 242, 246, 244, 248, 1256, 934, 959>> \o U("]|ou|oo|oh|wo)")],
       [input |-> U("uu"),
        replace |-> U("(uu|u|") \o <<363>> \o U(")")],
       [input |-> U("u"),
        replace |-> U("([u") \o <<363, 251, 250, 249, 252, 470, 956>> \o U("]|uu)")],
       [input |-> U("aa"),
        replace |-> U("(aa|a)")],
       [input |-> U("ae"),
        replace |-> U("(ae|") \o <<230>> \o U(")")],
       [input |-> U("a"),
        replace |-> U("([a") \o <<228, 227, 940>> \o U("@") \o <<226, 224, 225, 7841, 229, 230, 257, 8704, 923>> \o U("]|aa)")],
       [input |-> U("c"),
        replace |-> U("[c") \o <<962, 269, 8451, 8579>> \o U("]")],
       [input |-> <<233>>,
        replace |-> U("[") \o <<233, 201>> \o U("]")],
       [input |-> U("e"),
        replace |-> U("[e") \o <<601, 233, 201, 234, 1105, 235, 232, 230, 275>> \o U("]")],
       [input |-> U("'"),
        replace |-> U("['") \o <<8217, 712>> \o U("]")],
       [input |-> U("n"),
        replace |-> U("[n") \o <<241>> \o U("]")],
       [input |-> U("0"),
        replace |-> U("[0") \o <<1256>> \o U("]")],
       [input |-> U("2"),
        replace |-> U("[2") \o <<178>> \o U("]")],
       [input |-> U("3"),
        replace |-> U("[3") \o <<179>> \o U("]")],
       [input |-> U("5"),
        replace |-> U("[5") \o <<8309>> \o U("]")],
       [input |-> U("*"),
        replace |-> U("[*") \o <<10043, 65290, 10035, 65038>> \o U("]")],
       [input |-> U(" "),
        replace |-> U("( ?[") \o <<178, 179, 8309, 9733, 9734, 9829, 9825>> \o U("\\/\\*") \o <<10043, 10035, 65038, 65290>> \o U("'") \o <<712>> \o U("-") \o <<8765>> \o U("~") \o <<12316, 12539, 183>> \o U("\\.,;:!?@_-") \o <<8660, 8594, 8786>> \o U("=\\+") \o <<8224, 215, 177, 9678, 1256, 9834, 9833, 9827, 9251, 8734>> \o U("] ?| )")],
       [input |-> U("i"),
        replace |-> U("([i") \o <<237, 943, 618>> \o U("]|ii)")],
       [input |-> U("x"),
        replace |-> U("[x") \o <<215>> \o U("]")],
       [input |-> U("b"),
        replace |-> U("[b") \o <<223, 946>> \o U("]")],
       [input |-> U("r"),
        replace |-> U("[r") \o <<1071>> \o U("]")],
       [input |-> U("s"),
        replace |-> U("[s") \o <<962>> \o U("]")]
    >>

RECURSIVE apply_rules_from(_, _)
\* the rules from the k-th on, applied in order to the progressively
\* rewritten string (its length is taken so that each rule's output is
\* computed before the next rule is applied to it)
apply_rules_from(output_str, k) ==
    IF k > Len(ANIME_REGEX_REPLACE_RULES) \/ Len(output_str) < 0 THEN output_str
    ELSE apply_rules_from(
            replace_from(output_str, 1, ANIME_REGEX_REPLACE_RULES[k].input,
                         ANIME_REGEX_REPLACE_RULES[k].replace, TRUE),
            k + 1)

apply_regex_rules(input_str) == apply_rules_from(input_str, 1)

generate_regex_pattern(input_str, partial_match) ==
    LET escaped == escape_and_replace(str_lower(input_str))
        ouput_str == apply_regex_rules(escaped)
    IN  IF partial_match THEN U(".*") \o ouput_str \o U(".*")
        ELSE U("^") \o ouput_str \o U("$")

RECURSIVE split_from(_, _, _, _)
\* str.split(sep) for a one-character sep: the pieces of s[i..], cur being
\* the piece read so far
split_from(s, i, sep, cur) ==
    IF i > Len(s) THEN <<cur>>
    ELSE IF s[i] = sep THEN <<cur>> \o split_from(s, i + 1, sep, <<>>)
         ELSE split_from(s, i + 1, sep, Append(cur, s[i]))

str_split(s, sep) == split_from(s, 1, sep, <<>>)

\* process_user_input that joins the words in their order: [::-1] is missing
process_user_input_unswapped(input_str, partial_match, swap_words) ==
    LET output_str == generate_regex_pattern(input_str, partial_match)
        words == str_split(input_str, SPACE)
    IN  IF ~swap_words \/ Len(words) # 2 THEN output_str
        ELSE LET swapped_input_str == words[1] \o <<SPACE>> \o words[2]
                 swapped_output_str ==
                     generate_regex_pattern(swapped_input_str, partial_match)
             IN  U("(") \o output_str \o U(")|(") \o swapped_output_str \o U(")")

RECURSIVE join_reversed(_, _)
\* " ".join(words[::-1]) for the first n words
join_reversed(words, n) ==
    IF n = 0 THEN <<>>
    ELSE IF n = 1 THEN words[1]
    ELSE words[n] \o <<SPACE>> \o join_reversed(words, n - 1)

\* process_user_input with "< 2" in the place of "!= 2"
process_user_input_two_or_more(input_str, partial_match, swap_words) ==
    LET output_str == generate_regex_pattern(input_str, partial_match)
        words == str_split(input_str, SPACE)
    IN  IF ~swap_words \/ Len(words) < 2 THEN output_str
        ELSE LET swapped_input_str == join_reversed(words, Len(words))
                 swapped_output_str ==
                     generate_regex_pattern(swapped_input_str, partial_match)
             IN  U("(") \o output_str \o U(")|(") \o swapped_output_str \o U(")")

process_user_input(input_str, partial_match, swap_words) ==
    LET output_str == generate_regex_pattern(input_str, partial_match)
        words == str_split(input_str, SPACE)
    IN  IF ~swap_words \/ Len(words) # 2 THEN output_str
        ELSE LET swapped_input_str == words[2] \o <<SPACE>> \o words[1]
                 swapped_output_str ==
                     generate_regex_pattern(swapped_input_str, partial_match)
             IN  U("(") \o output_str \o U(")|(") \o swapped_output_str \o U(")")

-----------------------------------------------------------------------------
(* re.search: the pattern text is parsed, then matched by sets of positions *)

Node(t, ranges, alts, q) == [t |-> t, ranges |-> ranges, alts |-> alts, q |-> q]

RECURSIVE parse_class(_, _, _)
\* the body of a character class from p[i] on; acc are the ranges read
parse_class(p, i, acc) ==
    IF p[i] = ord("]") /\ acc # <<>> THEN [node |-> acc, next |-> i + 1]
    ELSE LET esc == p[i] = BACKSLASH
             lo == IF esc THEN p[i + 1] ELSE p[i]
             j == IF esc THEN i + 2 ELSE i + 1
             isRange == p[j] = ord("-") /\ p[j + 1] # ord("]")
             hiEsc == isRange /\ p[j + 1] = BACKSLASH
             hi == IF ~isRange THEN lo ELSE IF hiEsc THEN p[j + 2] ELSE p[j + 1]
             k == IF ~isRange THEN j ELSE IF hiEsc THEN j + 3 ELSE j + 2
         IN  parse_class(p, k, Append(acc, <<lo, hi>>))

RECURSIVE parse_alts(_, _, _), parse_branch(_, _, _), parse_atom(_, _)
\* one atom at p[i]: a group, a class, an escaped character, a dot, an
\* anchor or a literal
parse_atom(p, i) ==
    CASE p[i] = ord("(") ->
            LET r == parse_alts(p, i + 1, <<>>)
            IN  [node |-> Node("grp", <<>>, r.node, "1"), next |-> r.next + 1]
      [] p[i] = ord("[") ->
            LET r == parse_class(p, i + 1, <<>>)
            IN  [node |-> Node("cls", r.node, <<>>, "1"), next |-> r.next]
      [] p[i] = BACKSLASH ->
            [node |-> Node("cls", <<<<p[i + 1], p[i + 1]>>>>, <<>>, "1"),
             next |-> i + 2]
      [] p[i] = ord(".") -> [node |-> Node("any", <<>>, <<>>, "1"), next |-> i + 1]
      [] p[i] = ord("^") -> [node |-> Node("bol", <<>>, <<>>, "1"), next |-> i + 1]
      [] p[i] = ord("$") -> [node |-> Node("eol", <<>>, <<>>, "1"), next |-> i + 1]
      [] OTHER -> [node |-> Node("cls", <<<<p[i], p[i]>>>>, <<>>, "1"), next |-> i + 1]

\* the atoms of one alternative, each with its quantifier, up to | or )
parse_branch(p, i, acc) ==
    IF i > Len(p) \/ p[i] \in {ord("|"), ord(")")} THEN [node |-> acc, next |-> i]
    ELSE LET a == parse_atom(p, i)
             q == IF a.next > Len(p) THEN "1"
                  ELSE IF p[a.next] = ord("?") THEN "?"
                  ELSE IF p[a.next] = STAR THEN "*" ELSE "1"
         IN  parse_branch(p, IF q = "1" THEN a.next ELSE a.next + 1,
                          Append(acc, [a.node EXCEPT !.q = q]))

\* the alternatives separated by |, up to ) or the end
parse_alts(p, i, acc) ==
    LET b == parse_branch(p, i, <<>>)
    IN  IF b.next <= Len(p) /\ p[b.next] = ord("|")
        THEN parse_alts(p, b.next + 1, Append(acc, b.node))
        ELSE [node |-> Append(acc, b.node), next |-> b.next]

re_parse(p) == parse_alts(p, 1, <<>>).node

in_ranges(c, ranges) ==
    \E k \in 1..Len(ranges) : ranges[k][1] <= c /\ c <= ranges[k][2]

RECURSIVE ends_alts(_, _, _), ends_branch(_, _, _, _), step(_, _, _), star(_, _, _, _)
\* the positions reached from one of the positions S by one match of node
step(node, text, S) ==
    CASE node.t = "cls" ->
            {q + 1 : q \in {r \in S : r < Len(text)
                                      /\ in_ranges(text[r + 1], node.ranges)}}
      [] node.t = "any" ->
            {q + 1 : q \in {r \in S : r < Len(text) /\ text[r + 1] # NEWLINE}}
      [] node.t = "bol" -> {q \in S : q = 0}
      [] node.t = "eol" ->
            {q \in S : \/ q = Len(text)
                       \/ q = Len(text) - 1 /\ text[Len(text)] = NEWLINE}
      [] node.t = "grp" -> ends_alts(node.alts, text, S)

\* zero or more matches of node
star(node, text, frontier, acc) ==
    LET new == step(node, text, frontier) \ acc
    IN  IF new = {} THEN acc ELSE star(node, text, new, acc \cup new)

\* the atoms of alternative b from the k-th on, one after the other
ends_branch(b, k, text, S) ==
    IF k > Len(b) \/ S = {} THEN S
    ELSE LET after == CASE b[k].q = "1" -> step(b[k], text, S)
                        [] b[k].q = "?" -> S \cup step(b[k], text, S)
                        [] b[k].q = "*" -> star(b[k], text, S, S)
         IN  ends_branch(b, k + 1, text, after)

ends_alts(alts, text, S) ==
    UNION {ends_branch(alts[k], 1, text, S) : k \in 1..Len(alts)}

\* re.search(pattern, text) is not None
re_search(pattern, text) ==
    ends_alts(re_parse(pattern), text, 0..Len(text)) # {}

-----------------------------------------------------------------------------
(* Dates: a date is its proleptic Gregorian ordinal (date.toordinal), a     *)
(* datetime a record [date, tod] with tod the second of the day             *)

is_leap(y) == y % 4 = 0 /\ (y % 100 # 0 \/ y % 400 = 0)

days_in_month(y, m) ==
    IF m = 2 THEN (IF is_leap(y) THEN 29 ELSE 28)
    ELSE IF m \in {4, 6, 9, 11} THEN 30 ELSE 31

RECURSIVE days_before_month(_, _)
days_before_month(y, m) ==
    IF m = 1 THEN 0 ELSE days_before_month(y, m - 1) + days_in_month(y, m - 1)

days_before_year(y) ==
    (y - 1) * 365 + ((y - 1) \div 4) - ((y - 1) \div 100) + ((y - 1) \div 400)

toordinal(y, m, d) == days_before_year(y) + days_before_month(y, m) + d

timedelta_days(n) == n

SecondsPerDay == 24 * 3600

\* b - a in the place of a - b
total_seconds_reversed(a, b) == (b.date - a.date) * SecondsPerDay + (b.tod - a.tod)

\* (a - b).total_seconds() for two datetimes
total_seconds(a, b) == (a.date - b.date) * SecondsPerDay + (a.tod - b.tod)

is_digit(c) == c \in 48..57

RECURSIVE int_of(_)
\* the number written by a str of digits
int_of(s) ==
    IF s = <<>> THEN 0 ELSE 10 * int_of(SubSeq(s, 1, Len(s) - 1)) + (s[Len(s)] - 48)

\* datetime.strptime(text, "%Y-%m-%d").date(): four digits, a month of one
\* or two digits in 1..12, a day of one or two digits in 1..31, separated by
\* "-", nothing before or after, and a day the month has; else ValueError
\* is raised
strptime_date(text) ==
    LET f == str_split(text, ord("-"))
        digits(s) == \A k \in 1..Len(s) : is_digit(s[k])
        wellFormed ==
            /\ Len(f) = 3
            /\ Len(f[1]) = 4 /\ digits(f[1])
            /\ Len(f[2]) \in {1, 2} /\ digits(f[2]) /\ int_of(f[2]) \in 1..12
            /\ Len(f[3]) \in {1, 2} /\ digits(f[3]) /\ int_of(f[3]) \in 1..31
        ValueError == [raised |-> TRUE, date |-> 0]
    IN  IF ~wellFormed THEN ValueError
        ELSE LET y == int_of(f[1])
                 m == int_of(f[2])
                 d == int_of(f[3])
             IN  IF y < 1 \/ d > days_in_month(y, m) THEN ValueError
                 ELSE [raised |-> FALSE, date |-> toordinal(y, m, d)]

\* the reset time of the deployment (config DAILY_QUIZ_RESET_TIME), 04:00:00
DAILY_QUIZ_RESET_TIME == 4 * 3600

\* quiz_date_at with > in the place of >=
quiz_date_at_after(t, daily_quiz_reset_time) ==
    IF t.tod > daily_quiz_reset_time THEN t.date
    ELSE t.date - timedelta_days(1)

\* the current quiz date at datetime t
quiz_date_at(t, daily_quiz_reset_time) ==
    IF t.tod >= daily_quiz_reset_time THEN t.date
    ELSE t.date - timedelta_days(1)

get_current_quiz_date(daily_quiz_reset_time) ==
    quiz_date_at(now, daily_quiz_reset_time)

-----------------------------------------------------------------------------
(* The inputs of the handlers *)

DEFAULT_ADMIN_ID == 1

\* the Discord accounts that send interactions: interaction.user
DiscordUsers == {[id |-> DEFAULT_ADMIN_ID, name |-> "admin"], [id |-> 2, name |-> "alice"]}

\* the ids of the rows of table QuizType (the choices of quiz_type)
QuizTypes == {1, 2}

\* the accounts that play: they press the play button and call answerquiz
Players == {u \in DiscordUsers : u.id # DEFAULT_ADMIN_ID}

\* the clip and canonical answer given to newquiz, and those given to
\* updatequiz
NewContents == {[clip |-> "clipA", answer |-> "saori hayami"]}

UpdateContents == {[clip |-> "clipB", answer |-> "rie"]}

CanonicalAnswers == {c.answer : c \in NewContents \cup UpdateContents}

Guesses == {"hayami saori", "Rie"}

DateTexts ==
    {"2023-11-05", "2023-11-06", "2023-11-07", "2023-11-8", "06/11/2023", "2023-11-31"}

\* the moment the process starts (the module is imported)
ProcessStart == [date |-> toordinal(2023, 11, 5), tod |-> DAILY_QUIZ_RESET_TIME]

\* the clock of the model shows two moments a day: one second before the
\* reset time and the reset time
tick_index(t) ==
    2 * (t.date - ProcessStart.date) + (IF t.tod >= DAILY_QUIZ_RESET_TIME THEN 0 ELSE -1)

next_moment(t) ==
    IF t.tod >= DAILY_QUIZ_RESET_TIME
    THEN [date |-> t.date + 1, tod |-> DAILY_QUIZ_RESET_TIME - 1]
    ELSE [date |-> t.date, tod |-> DAILY_QUIZ_RESET_TIME]

\* datetime.strptime(quiz_date, "%Y-%m-%d").date() for each date text
ParsedDate == [d \in DateTexts |-> strptime_date(U(d))]

\* the verdict of answerquiz's match for each guess and canonical answer
IsMatch ==
    [g \in Guesses, c \in CanonicalAnswers |->
        re_search(process_user_input(U(g), FALSE, TRUE), U(c))]

-----------------------------------------------------------------------------
(* Queries on the tables *)

\* session.query(Quiz).filter(id_type ==, date ==).first(): the id of the
\* row, 0 for None
quiz_on(id_type, date) ==
    LET found == {i \in 1..Len(quizzes) :
                    quizzes[i].id_type = id_type /\ quizzes[i].date = date}
    IN  IF found = {} THEN 0 ELSE Min(found)

\* latest_quiz_of without the filter on the quiz type
latest_quiz_of_any_type(id_type) ==
    LET latest == {i \in 1..Len(quizzes) :
                     \A j \in 1..Len(quizzes) : quizzes[j].date <= quizzes[i].date}
    IN  IF quizzes = <<>> THEN 0 ELSE Min(latest)

\* session.query(Quiz).filter(id_type ==).order_by(Quiz.date.desc()).first()
latest_quiz_of(id_type) ==
    LET ofType == {i \in 1..Len(quizzes) : quizzes[i].id_type = id_type}
        latest == {i \in ofType : \A j \in ofType : quizzes[j].date <= quizzes[i].date}
    IN  IF ofType = {} THEN 0 ELSE Min(latest)

\* is_admin without the filter on User.is_admin
is_admin_any_user(tbl, user) ==
    user.id \in {admin.id : admin \in tbl}

is_admin(tbl, user) ==
    user.id \in {admin.id : admin \in {u \in tbl : u.is_admin}}

\* get_user_from_id without the "not user" half of its test
\* get_user_from_id: the table afterwards, the user returned (a set: empty
\* for None) and whether ValueError is raised; a user_name of "" is no name
get_user_from_id_always_add(tbl, user_id, add_if_not_exist, user_name) ==
    LET found == {u \in tbl : u.id = user_id}
        user == [id |-> user_id, name |-> user_name, is_admin |-> FALSE]
    IN  IF add_if_not_exist
        THEN IF user_name = ""
             THEN [users |-> tbl, user |-> {}, raised |-> TRUE]
             ELSE [users |-> tbl \cup {user}, user |-> {user}, raised |-> FALSE]
        ELSE [users |-> tbl, user |-> found, raised |-> FALSE]

get_user_from_id(tbl, user_id, add_if_not_exist, user_name) ==
    LET found == {u \in tbl : u.id = user_id}
        user == [id |-> user_id, name |-> user_name, is_admin |-> FALSE]
    IN  IF found = {} /\ add_if_not_exist
        THEN IF user_name = ""
             THEN [users |-> tbl, user |-> {}, raised |-> TRUE]
             ELSE [users |-> tbl \cup {user}, user |-> {user}, raised |-> FALSE]
        ELSE [users |-> tbl, user |-> found, raised |-> FALSE]

\* user.answers
answers_of(user_id) ==
    LET mine(a) == a.user_id = user_id IN SelectSeq(answers, mine)

\* start_timestamps without the filter on the quiz
start_timestamps_any_quiz(user_id, quiz_id) ==
    {k \in 1..Len(timestamps) : timestamps[k].user_id = user_id}

\* the rows of UserStartQuizTimestamp of a user for a quiz
start_timestamps(user_id, quiz_id) ==
    {k \in 1..Len(timestamps) :
        timestamps[k].user_id = user_id /\ timestamps[k].quiz_id = quiz_id}

\* what a handler stretch sent or raised
Resp(op, user_id, outcome) == [op |-> op, user |-> user_id, outcome |-> outcome]

-----------------------------------------------------------------------------
(* newquiz *)

\* new_date_after with > in the place of >=
new_date_after_strict(latest, current_quiz_date) ==
    IF latest # 0 /\ latest > current_quiz_date
    THEN latest + timedelta_days(1)
    ELSE current_quiz_date

\* new_date_after without "+ timedelta(days=1)"
new_date_after_same_day(latest, current_quiz_date) ==
    IF latest # 0 /\ latest >= current_quiz_date
    THEN latest
    ELSE current_quiz_date

\* new_date_after that leaves one day free after the latest quiz
new_date_after_skipping(latest, current_quiz_date) ==
    IF latest # 0 /\ latest >= current_quiz_date
    THEN latest + timedelta_days(2)
    ELSE current_quiz_date

\* the date of the new quiz: latest is the date of the latest quiz of the
\* type, 0 when the type has none
new_date_after(latest, current_quiz_date) ==
    IF latest # 0 /\ latest >= current_quiz_date
    THEN latest + timedelta_days(1)
    ELSE current_quiz_date

new_quiz(interaction_user, quiz_type, new_clip, new_answer) ==
    IF ~is_admin(users, interaction_user)
    THEN /\ last' = Resp("newquiz", interaction_user.id, "NotAdmin")
         /\ UNCHANGED <<now, quizzes, users, timestamps, answers, pending, posted, call>>
    ELSE /\ Len(quizzes) < MaxQuizzes
         /\ LET latest_quiz == latest_quiz_of(quiz_type)
                current_quiz_date == get_current_quiz_date(DAILY_QUIZ_RESET_TIME)
                new_date ==
                    new_date_after(IF latest_quiz = 0 THEN 0 ELSE quizzes[latest_quiz].date,
                                   current_quiz_date)
            IN  /\ quizzes' = Append(quizzes,
                        [id |-> Len(quizzes) + 1,
                         creator_id |-> interaction_user.id,
                         clip |-> new_clip,
                         answer |-> new_answer,
                         id_type |-> quiz_type,
                         date |-> new_date])
                /\ last' = Resp("newquiz", interaction_user.id, "Created")
         /\ UNCHANGED <<now, users, timestamps, answers, pending, posted, call>>

-----------------------------------------------------------------------------
(* updatequiz *)

\* update_quiz_outcome with < in the place of <=
update_quiz_outcome_today_allowed(admin, parsed, current_quiz_date, quiz) ==
    IF ~admin THEN "NotAdmin"
    ELSE IF parsed.raised THEN "InvalidDateFormat"
    ELSE IF parsed.date < current_quiz_date THEN "DateNotInFuture"
    ELSE IF quiz = 0 THEN "NotFound"
    ELSE "Updated"

\* update_quiz_outcome with the lookup of the quiz before the check of the
\* date
update_quiz_outcome_lookup_first(admin, parsed, current_quiz_date, quiz) ==
    IF ~admin THEN "NotAdmin"
    ELSE IF parsed.raised THEN "InvalidDateFormat"
    ELSE IF quiz = 0 THEN "NotFound"
    ELSE IF parsed.date <= current_quiz_date THEN "DateNotInFuture"
    ELSE "Updated"

\* update_quiz_outcome without the check of the date
update_quiz_outcome_any_date(admin, parsed, current_quiz_date, quiz) ==
    IF ~admin THEN "NotAdmin"
    ELSE IF parsed.raised THEN "InvalidDateFormat"
    ELSE IF quiz = 0 THEN "NotFound"
    ELSE "Updated"

\* the checks of updatequiz in the order of the code; quiz is 0 for None
update_quiz_outcome(admin, parsed, current_quiz_date, quiz) ==
    IF ~admin THEN "NotAdmin"
    ELSE IF parsed.raised THEN "InvalidDateFormat"
    ELSE IF parsed.date <= current_quiz_date THEN "DateNotInFuture"
    ELSE IF quiz = 0 THEN "NotFound"
    ELSE "Updated"

\* update_quiz that writes to every quiz of the type: the filter on the
\* date is missing
update_quiz_every_date(interaction_user, quiz_date, quiz_type, new_clip, new_answer) ==
    LET parsed == ParsedDate[quiz_date]
        quiz == IF parsed.raised THEN 0 ELSE quiz_on(quiz_type, parsed.date)
        outcome == update_quiz_outcome(is_admin(users, interaction_user), parsed,
                                       get_current_quiz_date(DAILY_QUIZ_RESET_TIME), quiz)
    IN  /\ quizzes' = IF outcome = "Updated"
                      THEN [i \in 1..Len(quizzes) |->
                              IF quizzes[i].id_type = quiz_type
                              THEN [quizzes[i] EXCEPT !.clip = new_clip,
                                                      !.answer = new_answer]
                              ELSE quizzes[i]]
                      ELSE quizzes
        /\ last' = Resp("updatequiz", interaction_user.id, outcome)
        /\ UNCHANGED <<now, users, timestamps, answers, pending, posted, call>>

update_quiz(interaction_user, quiz_date, quiz_type, new_clip, new_answer) ==
    LET parsed == ParsedDate[quiz_date]
        quiz == IF parsed.raised THEN 0 ELSE quiz_on(quiz_type, parsed.date)
        outcome == update_quiz_outcome(is_admin(users, interaction_user), parsed,
                                       get_current_quiz_date(DAILY_QUIZ_RESET_TIME), quiz)
    IN  /\ quizzes' = IF outcome = "Updated"
                      THEN [quizzes EXCEPT ![quiz].clip = new_clip,
                                           ![quiz].answer = new_answer]
                      ELSE quizzes
        /\ last' = Resp("updatequiz", interaction_user.id, outcome)
        /\ UNCHANGED <<now, users, timestamps, answers, pending, posted, call>>

-----------------------------------------------------------------------------
(* plannedquizzes and mystats: they read the tables *)

planned_quizzes(interaction_user) ==
    LET current_quiz_date == get_current_quiz_date(DAILY_QUIZ_RESET_TIME)
        unique_date == {quizzes[i].date :
                          i \in {j \in 1..Len(quizzes) : quizzes[j].date >= current_quiz_date}}
    IN  /\ last' = Resp("plannedquizzes", interaction_user.id,
                        IF ~is_admin(users, interaction_user) THEN "NotAdmin"
                        ELSE IF unique_date = {} THEN "NoPlannedQuizzes"
                        ELSE "Planned")
        /\ UNCHANGED <<now, quizzes, users, timestamps, answers, pending, posted, call>>

my_stats(interaction_user) ==
    LET got == get_user_from_id(users, interaction_user.id, FALSE, "")
    IN  /\ last' = Resp("mystats", interaction_user.id,
                        IF got.user = {} THEN "NotPlayedYet" ELSE "Stats")
        /\ users' = got.users
        /\ UNCHANGED <<now, quizzes, timestamps, answers, pending, posted, call>>

-----------------------------------------------------------------------------
(* answerquiz *)

\* the Answer row a handler builds, and the handler suspended at an await
Answer(user_id, quiz_id, answer, answer_time, is_correct) ==
    [user_id |-> user_id, quiz_id |-> quiz_id, answer |-> answer,
     answer_time |-> answer_time, is_correct |-> is_correct]

Suspended(at, interaction_user, user_answer) ==
    [at |-> at, user |-> interaction_user, user_answer |-> user_answer]

\* already_correct that looks at the first row of user.answers only
already_correct_first_row(user_answers, quiz_id) ==
    /\ user_answers # <<>>
    /\ user_answers[1].quiz_id = quiz_id
    /\ user_answers[1].is_correct

\* "for answer in user.answers: if answer.quiz_id == quiz.id and
\* answer.is_correct": the loop ends the handler at such a row
already_correct(user_answers, quiz_id) ==
    \E k \in 1..Len(user_answers) :
        user_answers[k].quiz_id = quiz_id /\ user_answers[k].is_correct

\* the loop variable is named answer, like the parameter that holds the
\* guess: after a loop over one row or more, answer is the last Answer row
\* and no longer a str
answer_is_str_after_loop(user_answers) == user_answers = <<>>

\* the handler up to its first await
anwswer_quiz(interaction_user, quiz_type, answer) ==
    LET answer_time == now
        current_quiz_date == get_current_quiz_date(DAILY_QUIZ_RESET_TIME)
        quiz == quiz_on(quiz_type, current_quiz_date)
        uid == interaction_user.id
    IN  IF quiz = 0
        THEN \* the message is sent and the handler goes on after the await
             /\ BagCardinality(pending) < MaxPending
             /\ pending' = pending (+) SetToBag({Suspended("no_quiz", interaction_user,
                                                    Answer(uid, 0, answer, 0, FALSE))})
             /\ last' = Resp("answerquiz", uid, "NoQuizToday")
             /\ UNCHANGED <<now, quizzes, users, timestamps, answers, posted, call>>
        ELSE LET got == get_user_from_id(users, uid, TRUE, interaction_user.name)
                 user_answers == answers_of(uid)
                 started == start_timestamps(uid, quiz)
                 elapsed == total_seconds(answer_time, timestamps[Min(started)].timestamp)
             IN  /\ users' = got.users
                 /\ UNCHANGED <<now, quizzes, timestamps, answers, posted, call>>
                 /\ IF already_correct(user_answers, quiz)
                    THEN /\ last' = Resp("answerquiz", uid, "AlreadySolved")
                         /\ UNCHANGED pending
                    ELSE IF started = {}
                    THEN /\ last' = Resp("answerquiz", uid, "NotViewedYet")
                         /\ UNCHANGED pending
                    ELSE IF ~answer_is_str_after_loop(user_answers)
                    THEN \* process_user_input calls .lower() on an Answer row
                         /\ last' = Resp("answerquiz", uid, "AttributeError_lower")
                         /\ UNCHANGED pending
                    ELSE LET verdict == IsMatch[answer, quizzes[quiz].answer]
                         IN  /\ BagCardinality(pending) < MaxPending
                             /\ Len(answers) + BagCardinality(pending) < MaxAnswers
                             /\ pending' = pending (+) SetToBag({Suspended("verdict",
                                    interaction_user,
                                    Answer(uid, quiz, answer, elapsed, verdict))})
                             /\ last' = Resp("answerquiz", uid,
                                             IF verdict THEN "Correct" ELSE "Incorrect")

\* anwswer_quiz_resume that replaces the Answer the user has for the quiz
\* instead of adding one
anwswer_quiz_resume_replacing(h) ==
    /\ BagIn(h, pending)
    /\ pending' = pending (-) SetToBag({h})
    /\ IF h.at = "verdict"
       THEN LET other(a) == ~(a.user_id = h.user_answer.user_id
                              /\ a.quiz_id = h.user_answer.quiz_id)
            IN  /\ answers' = Append(SelectSeq(answers, other), h.user_answer)
                /\ last' = Resp("answerquiz", h.user.id, "Stored")
                /\ UNCHANGED users
       ELSE /\ users' = get_user_from_id(users, h.user.id, TRUE, h.user.name).users
            /\ last' = Resp("answerquiz", h.user.id, "AttributeError_id")
            /\ UNCHANGED answers
    /\ UNCHANGED <<now, quizzes, timestamps, posted, call>>

\* the handler from the await on
anwswer_quiz_resume(h) ==
    /\ BagIn(h, pending)
    /\ pending' = pending (-) SetToBag({h})
    /\ IF h.at = "verdict"
       THEN \* session.add(user_answer); session.commit()
            /\ answers' = Append(answers, h.user_answer)
            /\ last' = Resp("answerquiz", h.user.id, "Stored")
            /\ UNCHANGED users
       ELSE \* quiz is None: get_user_from_id, then quiz.id raises
            /\ users' = get_user_from_id(users, h.user.id, TRUE, h.user.name).users
            /\ last' = Resp("answerquiz", h.user.id, "AttributeError_id")
            /\ UNCHANGED answers
    /\ UNCHANGED <<now, quizzes, timestamps, posted, call>>

-----------------------------------------------------------------------------
(* The play button and the daily post *)

\* the default of NewQuizButton's new_quiz_date, evaluated once, when the
\* class is defined
new_quiz_date == quiz_date_at(ProcessStart, DAILY_QUIZ_RESET_TIME)

\* not_clicked_before with the user and the quiz taken for one another
not_clicked_before_swapped(user_id, quiz_id) == start_timestamps(quiz_id, user_id) = {}

\* "user.id not in [start_time.user_id for start_time in
\* current_quiz.start_quiz_timestamps]"
not_clicked_before(user_id, quiz_id) == start_timestamps(user_id, quiz_id) = {}

NewQuizButton_callback(interaction_user, quiz_type) ==
    LET current_quiz == quiz_on(quiz_type, new_quiz_date)
        uid == interaction_user.id
    IN  /\ posted
        /\ IF current_quiz = 0
           THEN /\ last' = Resp("play", uid, "NoQuizToday")
                /\ UNCHANGED <<users, timestamps>>
           ELSE /\ users' = get_user_from_id(users, uid, TRUE, interaction_user.name).users
                /\ timestamps' =
                      IF not_clicked_before(uid, current_quiz)
                      THEN Append(timestamps, [user_id |-> uid, quiz_id |-> current_quiz,
                                               timestamp |-> now])
                      ELSE timestamps
                /\ last' = Resp("play", uid, "Clip")
        /\ UNCHANGED <<now, quizzes, answers, pending, posted, call>>

\* the scheduled post sends a NewQuizView: one play button per quiz type
post_yesterdays_quiz_results ==
    /\ posted' = TRUE
    /\ last' = Resp("post", 0, "Posted")
    /\ UNCHANGED <<now, quizzes, users, timestamps, answers, pending, call>>

\* time passes
Tick ==
    /\ tick_index(now) < MaxTicks
    /\ now' = next_moment(now)
    /\ last' = Resp("tick", 0, "Tick")
    /\ UNCHANGED <<quizzes, users, timestamps, answers, pending, posted, call>>

-----------------------------------------------------------------------------
(* The system *)

\* no function has been called on its own
NoCall ==
    [fn |-> "none", input_str |-> <<>>, text |-> <<>>, partial_match |-> FALSE,
     swap_words |-> FALSE, pattern |-> <<>>, verdict |-> FALSE,
     daily_quiz_reset_time |-> 0, date |-> 0, user_id |-> 0,
     add_if_not_exist |-> FALSE, user_name |-> "", user |-> {}, raised |-> FALSE,
     returned |-> FALSE]

Init ==
    /\ now = ProcessStart
    /\ quizzes = <<>>
    /\ users = {[id |-> DEFAULT_ADMIN_ID, name |-> "admin", is_admin |-> TRUE]}
    /\ timestamps = <<>>
    /\ answers = <<>>
    /\ pending = EmptyBag
    /\ posted = FALSE
    /\ last = Resp("start", 0, "Ready")
    /\ call = NoCall

Next ==
    \/ \E u \in DiscordUsers, t \in QuizTypes, c \in NewContents :
          new_quiz(u, t, c.clip, c.answer)
    \/ \E u \in DiscordUsers, d \in DateTexts, t \in QuizTypes, c \in UpdateContents :
          update_quiz(u, d, t, c.clip, c.answer)
    \/ \E u \in DiscordUsers : planned_quizzes(u)
    \/ \E u \in Players : my_stats(u)
    \/ \E u \in Players, t \in QuizTypes, g \in Guesses : anwswer_quiz(u, t, g)
    \/ \E h \in BagToSet(pending) : anwswer_quiz_resume(h)
    \/ \E u \in Players, t \in QuizTypes : NewQuizButton_callback(u, t)
    \/ post_yesterdays_quiz_results
    \/ Tick

Spec == Init /\ [][Next]_vars

-----------------------------------------------------------------------------
(* The functions of utils.py called on their own *)

\* the moments at which get_current_quiz_date is called
FnMoments ==
    {[date |-> d, tod |-> s] :
        d \in {toordinal(2023, 11, 5), toordinal(2023, 12, 31), toordinal(2024, 1, 1),
               toordinal(2024, 3, 1)},
        s \in {0, DAILY_QUIZ_RESET_TIME - 1, DAILY_QUIZ_RESET_TIME,
               DAILY_QUIZ_RESET_TIME + 1, SecondsPerDay - 1}}

\* the values of daily_quiz_reset_time
FnResetTimes == {0, DAILY_QUIZ_RESET_TIME, SecondsPerDay - 1}

\* a call of get_current_quiz_date: the function reads the clock
fn_get_current_quiz_date ==
    /\ call.fn = "get_current_quiz_date"
    /\ ~call.returned
    /\ call' = [call EXCEPT !.returned = TRUE,
                            !.date = get_current_quiz_date(call.daily_quiz_reset_time)]
    /\ UNCHANGED <<now, quizzes, users, timestamps, answers, pending, posted, last>>

\* the texts of the guesses and canonical answers: letters with a diacritic
\* and symbols are given by their code points
O_MACRON == <<333>>

U_MACRON == <<363>>

A_MACRON == <<257>>

E_ACUTE == <<233>>

N_TILDE == <<241>>

BLACK_STAR == <<9733>>

\* the pairs <<guess, canonical answer>> the matcher is called with
FnCase(input_str, text, partial_match, swap_words) ==
    [input_str |-> input_str, text |-> text, partial_match |-> partial_match,
     swap_words |-> swap_words]

\* the guess, the canonical answer and the flags of each call of the matcher;
\* answerquiz calls it with partial_match = False and swap_words = True
FnCases ==
    {FnCase(U("Rie Takahashi"), U("rie takahashi"), FALSE, TRUE),
     FnCase(U("rie takahashi"), U("Rie Takahashi"), FALSE, TRUE),
     FnCase(U("rie takahashi"), U("rie takahashi"), FALSE, TRUE),
     \* two words in either order, with and without swap_words
     FnCase(U("hayami saori"), U("saori hayami"), FALSE, TRUE),
     FnCase(U("saori hayami"), U("saori hayami"), FALSE, TRUE),
     FnCase(U("hayami saori"), U("saori hayami"), FALSE, FALSE),
     FnCase(U("b a"), U("a b"), FALSE, TRUE),
     FnCase(U("a b"), U("a b"), FALSE, TRUE),
     FnCase(U("b a"), U("a b"), TRUE, TRUE),
     FnCase(U("b a"), U("x a b y"), TRUE, TRUE),
     FnCase(U("b a"), U("a b"), FALSE, FALSE),
     FnCase(U("b a"), U("c d"), FALSE, TRUE),
     FnCase(U("b "), U(" b"), FALSE, TRUE),
     \* one word, three words, two words and a double space
     FnCase(U("rie"), U("rie"), FALSE, TRUE),
     FnCase(U("a b c"), U("c b a"), FALSE, TRUE),
     FnCase(U("a b c"), U("a b c"), FALSE, TRUE),
     FnCase(U("a b c"), U("c b a"), TRUE, TRUE),
     FnCase(U("rie hayami saori"), U("saori hayami rie"), FALSE, TRUE),
     FnCase(U("b  a"), U("a  b"), FALSE, TRUE),
     FnCase(U("b  a"), U("a b"), FALSE, TRUE),
     \* a canonical answer with a variant of a letter or digraph of the guess
     FnCase(U("o"), O_MACRON, FALSE, TRUE),
     FnCase(U("o"), U("ou"), FALSE, TRUE),
     FnCase(U("ou"), O_MACRON, FALSE, TRUE),
     FnCase(U("ou"), U("o"), FALSE, TRUE),
     FnCase(U("u"), U_MACRON, FALSE, TRUE),
     FnCase(U("u"), U("uu"), FALSE, TRUE),
     FnCase(U("a"), A_MACRON, FALSE, TRUE),
     FnCase(U("e"), E_ACUTE, FALSE, TRUE),
     FnCase(U("n"), N_TILDE, FALSE, TRUE),
     FnCase(U("kouhei"), U("k") \o O_MACRON \o U("hei"), FALSE, TRUE),
     FnCase(U("toono"), U("t") \o O_MACRON \o U("no"), FALSE, TRUE),
     FnCase(U("ryou"), U("ryo") \o U_MACRON, FALSE, TRUE),
     FnCase(U("oou"), O_MACRON \o U("u"), FALSE, TRUE),
     FnCase(U("oou"), U("ou"), FALSE, TRUE),
     \* a canonical answer with another separator between the two words
     FnCase(U("a b"), U("a  b"), FALSE, TRUE),
     FnCase(U("a b"), U("a") \o BLACK_STAR \o U("b"), FALSE, TRUE),
     FnCase(U("a b"), U("a ") \o BLACK_STAR \o U(" b"), FALSE, TRUE),
     FnCase(U("a b"), U("a ") \o BLACK_STAR \o U("b"), FALSE, TRUE),
     FnCase(U("a b"), U("a") \o BLACK_STAR \o BLACK_STAR \o U("b"), FALSE, TRUE),
     FnCase(U("yuuichi nakamura"), U("yuuichi  nakamura"), FALSE, TRUE),
     \* a canonical answer with a letter or a digit in the place of the space
     FnCase(U("a b"), U("axb"), FALSE, TRUE),
     FnCase(U("a b"), U("a1b"), FALSE, TRUE),
     FnCase(U("a b"), U("aXb"), FALSE, TRUE),
     \* a guess that is the canonical answer, with capitals
     FnCase(U("Saori Hayami"), U("Saori Hayami"), FALSE, TRUE),
     \* a guess that is a part of the canonical answer
     FnCase(U("rie"), U("rie takahashi"), FALSE, TRUE),
     FnCase(U("rie"), U("rie takahashi"), TRUE, TRUE),
     FnCase(U("rie"), U("xrie"), FALSE, TRUE),
     FnCase(U("rie"), U("a rie b"), TRUE, TRUE),
     FnCase(U("rie"), U("sae"), TRUE, TRUE),
     FnCase(U("rie"), U("rie") \o <<NEWLINE>>, FALSE, TRUE),
     FnCase(U("rie"), U("a") \o <<NEWLINE>> \o U("rie") \o <<NEWLINE>> \o U("b"), TRUE, TRUE)}

\* user_answer_pattern = process_user_input(...) and
\* re.search(user_answer_pattern, quiz.answer)
fn_process_user_input ==
    /\ call.fn = "process_user_input"
    /\ ~call.returned
    /\ LET user_answer_pattern ==
               process_user_input(call.input_str, call.partial_match, call.swap_words)
       IN  call' = [call EXCEPT !.returned = TRUE,
                                !.pattern = user_answer_pattern,
                                !.verdict = re_search(user_answer_pattern, call.text)]
    /\ UNCHANGED <<now, quizzes, users, timestamps, answers, pending, posted, last>>

\* the calls that are made, before they return
\* the ids and names that get_user_from_id is called with ("" is no name)
FnUserIds == {DEFAULT_ADMIN_ID, 2, 3}

FnUserNames == {"", "alice", "bob"}

\* one call of get_user_from_id on the table as the calls before left it
fn_get_user_from_id ==
    /\ call.fn = "get_user_from_id"
    /\ \E user_id \in FnUserIds, add_if_not_exist \in BOOLEAN, user_name \in FnUserNames :
          LET got == get_user_from_id(users, user_id, add_if_not_exist, user_name)
          IN  /\ users' = got.users
              /\ call' = [call EXCEPT !.returned = TRUE, !.user_id = user_id,
                                      !.add_if_not_exist = add_if_not_exist,
                                      !.user_name = user_name, !.user = got.user,
                                      !.raised = got.raised]
    /\ UNCHANGED <<now, quizzes, timestamps, answers, pending, posted, last>>

FnCalls ==
    {[NoCall EXCEPT !.fn = "get_current_quiz_date", !.daily_quiz_reset_time = r] :
        r \in FnResetTimes}
    \cup
    {[NoCall EXCEPT !.fn = "process_user_input", !.input_str = k.input_str,
                    !.text = k.text, !.partial_match = k.partial_match,
                    !.swap_words = k.swap_words] : k \in FnCases}
    \cup
    {[NoCall EXCEPT !.fn = "get_user_from_id"]}

FnInit ==
    /\ call \in FnCalls
    /\ now \in IF call.fn = "get_current_quiz_date" THEN FnMoments ELSE {ProcessStart}
    /\ quizzes = <<>>
    /\ users = {[id |-> DEFAULT_ADMIN_ID, name |-> "admin", is_admin |-> TRUE]}
    /\ timestamps = <<>>
    /\ answers = <<>>
    /\ pending = EmptyBag
    /\ posted = FALSE
    /\ last = Resp("start", 0, "Ready")

FnNext ==
    \/ fn_get_current_quiz_date
    \/ fn_process_user_input
    \/ fn_get_user_from_id

FnSpec == FnInit /\ [][FnNext]_vars

-----------------------------------------------------------------------------
(* Properties of answerquiz *)

\* the quiz answerquiz finds for a type: the quiz of the type dated the
\* current quiz date, 0 when there is none
QuizOfToday(t) ==
    LET D == quiz_date_at(now, DAILY_QUIZ_RESET_TIME)
        found == {i \in 1..Len(quizzes) : quizzes[i].id_type = t /\ quizzes[i].date = D}
    IN  IF found = {} THEN 0 ELSE Min(found)

Viewed(uid, q) ==
    \E k \in 1..Len(timestamps) : timestamps[k].user_id = uid /\ timestamps[k].quiz_id = q

Solved(uid, q) ==
    \E k \in 1..Len(answers) :
        answers[k].user_id = uid /\ answers[k].quiz_id = q /\ answers[k].is_correct

\* C1: whatever the interleaving of the answerquiz handlers of a user for a
\* quiz, the store never holds more than one Answer with is_correct = True
\* for a (user, quiz) pair.
C1_at_most_one_correct ==
    \A i, j \in 1..Len(answers) :
        ( /\ answers[i].user_id = answers[j].user_id
          /\ answers[i].quiz_id = answers[j].quiz_id
          /\ answers[i].is_correct
          /\ answers[j].is_correct ) => i = j

\* C2: once a correct Answer is stored for (user, quiz), every answerquiz of
\* that user for that quiz, whatever the guess, is refused as AlreadySolved
\* before any matching, and the stored Answers are unchanged by the call.
C2_already_solved_refused ==
    [][\A u \in Players, t \in QuizTypes, g \in Guesses :
          ( /\ QuizOfToday(t) # 0
            /\ Solved(u.id, QuizOfToday(t))
            /\ anwswer_quiz(u, t, g) )
          => /\ last' = [op |-> "answerquiz", user |-> u.id, outcome |-> "AlreadySolved"]
             /\ answers' = answers
             /\ pending' = pending]_vars

\* a refused second answer with no handler in flight
C2_witness ==
    /\ last.op = "answerquiz"
    /\ last.outcome = "AlreadySolved"
    /\ pending = EmptyBag
    /\ \E k \in 1..Len(answers) : answers[k].user_id = last.user /\ answers[k].is_correct

\* C3: every stored Answer for (user, quiz) has a UserStartQuizTimestamp for
\* (user, quiz); an answerquiz call made while the pair has none is refused
\* as NotViewedYet and stores no Answer.
C3_no_answer_without_view ==
    [][ /\ \A k \in 1..Len(answers') :
              \E j \in 1..Len(timestamps') :
                  /\ timestamps'[j].user_id = answers'[k].user_id
                  /\ timestamps'[j].quiz_id = answers'[k].quiz_id
        /\ \A u \in Players, t \in QuizTypes, g \in Guesses :
              ( /\ QuizOfToday(t) # 0
                /\ ~Viewed(u.id, QuizOfToday(t))
                /\ anwswer_quiz(u, t, g) )
              => /\ last' = [op |-> "answerquiz", user |-> u.id, outcome |-> "NotViewedYet"]
                 /\ answers' = answers
                 /\ pending' = pending ]_vars

\* a user with a stored Answer for one quiz is refused on a quiz not viewed
C3_witness ==
    /\ last.op = "answerquiz"
    /\ last.outcome = "NotViewedYet"
    /\ \E k \in 1..Len(answers) : answers[k].user_id = last.user
    /\ \E t \in QuizTypes : QuizOfToday(t) # 0 /\ ~Viewed(last.user, QuizOfToday(t))

\* C4: for a user who has viewed today's quiz and whose k >= 0 earlier
\* answerquiz calls for it did not match, a call with a matching guess is
\* accepted with the verdict correct, and its Answer is stored with the k
\* incorrect ones.
C4_correct_after_incorrect ==
    [][\A u \in Players, t \in QuizTypes, g \in Guesses :
          LET q == QuizOfToday(t) IN
          ( /\ q # 0
            /\ Viewed(u.id, q)
            /\ pending = EmptyBag
            /\ \A k \in 1..Len(answers) :
                  answers[k].user_id = u.id
                  => answers[k].quiz_id = q /\ ~answers[k].is_correct
            /\ IsMatch[g, quizzes[q].answer]
            /\ anwswer_quiz(u, t, g) )
          => /\ last' = [op |-> "answerquiz", user |-> u.id, outcome |-> "Correct"]
             /\ answers' = answers
             /\ \E h \in BagToSet(pending') :
                   /\ pending' = SetToBag({h})
                   /\ h.at = "verdict"
                   /\ h.user_answer.is_correct]_vars

\* C5: every answerquiz call that passes both checks appends exactly one
\* Answer, whatever Answers the user already has: its text is the guess, its
\* quiz today's quiz of the type, its is_correct the verdict of the matcher.
C5_one_answer_per_call ==
    [][ /\ \A u \in Players, t \in QuizTypes, g \in Guesses :
              LET q == QuizOfToday(t) IN
              ( /\ q # 0
                /\ ~Solved(u.id, q)
                /\ Viewed(u.id, q)
                /\ anwswer_quiz(u, t, g) )
              => \E h \in BagToSet(pending') :
                    /\ pending' = pending (+) SetToBag({h})
                    /\ h.at = "verdict"
                    /\ h.user_answer.user_id = u.id
                    /\ h.user_answer.quiz_id = q
                    /\ h.user_answer.answer = g
                    /\ h.user_answer.is_correct = IsMatch[g, quizzes[q].answer]
        /\ \A h \in BagToSet(pending) :
              (h.at = "verdict" /\ anwswer_quiz_resume(h))
              => answers' = Append(answers, h.user_answer) ]_vars

-----------------------------------------------------------------------------
(* Properties of the play button *)

\* the quiz a play button of a type shows: the quiz of the type dated the
\* quiz date the button holds, 0 when there is none
QuizOfButton(t) ==
    LET found == {i \in 1..Len(quizzes) :
                    quizzes[i].id_type = t /\ quizzes[i].date = new_quiz_date}
    IN  IF found = {} THEN 0 ELSE Min(found)

\* C6: after any sequence of clicks the store holds at most one
\* UserStartQuizTimestamp per (user, quiz); a click of a user who has one for
\* the quiz creates nothing, raises nothing and leaves the first unchanged.
C6_one_timestamp_per_pair ==
    [][ /\ \A i, j \in 1..Len(timestamps') :
              ( /\ timestamps'[i].user_id = timestamps'[j].user_id
                /\ timestamps'[i].quiz_id = timestamps'[j].quiz_id ) => i = j
        /\ \A u \in Players, t \in QuizTypes :
              ( /\ QuizOfButton(t) # 0
                /\ Viewed(u.id, QuizOfButton(t))
                /\ NewQuizButton_callback(u, t) )
              => /\ timestamps' = timestamps
                 /\ last' = [op |-> "play", user |-> u.id, outcome |-> "Clip"] ]_vars

\* a click at a later moment than the only stored timestamp
C6_witness ==
    /\ last.op = "play"
    /\ last.outcome = "Clip"
    /\ Len(timestamps) = 1
    /\ timestamps[1].user_id = last.user
    /\ timestamps[1].timestamp # now

-----------------------------------------------------------------------------
(* Properties of newquiz and updatequiz *)

IsAdminUser(u) == \E a \in users : a.id = u.id /\ a.is_admin

CurrentQuizDate == quiz_date_at(now, DAILY_QUIZ_RESET_TIME)

DatesOf(t) == {quizzes[i].date : i \in {j \in 1..Len(quizzes) : quizzes[j].id_type = t}}

Latest(S) == CHOOSE d \in S : \A e \in S : e <= d

\* the date the quiz of a newquiz call is to get
ScheduledDate(t) ==
    IF DatesOf(t) = {} THEN CurrentQuizDate
    ELSE IF Latest(DatesOf(t)) >= CurrentQuizDate THEN Latest(DatesOf(t)) + 1
    ELSE CurrentQuizDate

\* C7: newquiz of an admin for a category creates exactly one instance, of
\* the category, creator, clip and answer given, dated the current quiz date
\* D when the category has no instance or its latest is before D, and the
\* day after the latest when the latest is dated D or later.
C7_newquiz_date ==
    [][\A u \in DiscordUsers, t \in QuizTypes, c \in NewContents :
          (IsAdminUser(u) /\ new_quiz(u, t, c.clip, c.answer))
          => quizzes' = Append(quizzes,
                 [id |-> Len(quizzes) + 1, creator_id |-> u.id, clip |-> c.clip,
                  answer |-> c.answer, id_type |-> t, date |-> ScheduledDate(t)])]_vars

\* a quiz created for the day after the latest quiz of its category
C7_witness ==
    /\ last.op = "newquiz"
    /\ last.outcome = "Created"
    /\ Len(quizzes) = 2
    /\ quizzes[1].id_type = quizzes[2].id_type
    /\ quizzes[2].date = quizzes[1].date + 1
    /\ quizzes[1].date >= CurrentQuizDate

\* C8: no two quiz instances share a (category, date) pair.
C8_one_quiz_per_type_and_date ==
    \A i, j \in 1..Len(quizzes) :
        (quizzes[i].id_type = quizzes[j].id_type /\ quizzes[i].date = quizzes[j].date)
        => i = j

\* two quizzes of one category: one of the past, one of the current date
C8_witness ==
    /\ Len(quizzes) = 2
    /\ quizzes[1].id_type = quizzes[2].id_type
    /\ quizzes[1].date < CurrentQuizDate
    /\ quizzes[2].date = CurrentQuizDate

\* C9: a quiz instance is modified only by an updatequiz made while its date
\* is after the current quiz date, and only in its clip and answer; the
\* instance of the current quiz date and the earlier ones are never modified
\* nor removed.
C9_only_future_quizzes_updated ==
    [][ /\ Len(quizzes') >= Len(quizzes)
        /\ \A i \in 1..Len(quizzes) :
              quizzes'[i] # quizzes[i]
              => /\ quizzes[i].date > CurrentQuizDate
                 /\ last'.op = "updatequiz"
                 /\ last'.outcome = "Updated"
                 /\ quizzes'[i] = [quizzes[i] EXCEPT !.clip = quizzes'[i].clip,
                                                     !.answer = quizzes'[i].answer] ]_vars

\* an update of a planned quiz next to the quiz of the current date
C9_witness ==
    /\ last.op = "updatequiz"
    /\ last.outcome = "Updated"
    /\ \E i, j \in 1..Len(quizzes) :
          /\ quizzes[i].date = CurrentQuizDate
          /\ quizzes[i].clip = "clipA"
          /\ quizzes[j].date > CurrentQuizDate
          /\ quizzes[j].clip = "clipB"

\* C10: updatequiz of an admin is refused, with the quiz instances left
\* unchanged, as InvalidDateFormat when the date text is not a date in the
\* format, otherwise as DateNotInFuture when the date is not after the
\* current quiz date, otherwise as NotFound when the category has no
\* instance of the date.
C10_updatequiz_refusals ==
    [][\A u \in DiscordUsers, d \in DateTexts, t \in QuizTypes, c \in UpdateContents :
          LET parsed == ParsedDate[d]
              refusal ==
                  IF parsed.raised THEN "InvalidDateFormat"
                  ELSE IF parsed.date <= CurrentQuizDate THEN "DateNotInFuture"
                  ELSE IF parsed.date \notin DatesOf(t) THEN "NotFound"
                  ELSE "none"
          IN  ( /\ IsAdminUser(u)
                /\ refusal # "none"
                /\ update_quiz(u, d, t, c.clip, c.answer) )
              => /\ last' = [op |-> "updatequiz", user |-> u.id, outcome |-> refusal]
                 /\ quizzes' = quizzes]_vars

\* a date that is not in the future and has no quiz either: the refusal is
\* DateNotInFuture
C10_witness ==
    /\ last.op = "updatequiz"
    /\ last.outcome = "DateNotInFuture"
    /\ quizzes = <<>>

-----------------------------------------------------------------------------
(* Properties of the quiz date *)

\* C11: get_current_quiz_date returns the previous calendar date when the
\* time of day is before the reset time and the calendar date when it is at
\* or after it; with the reset at 04:00:00, 03:59:59 gives yesterday and
\* 04:00:00 gives today.
C11_quiz_date_boundary ==
    (call.fn = "get_current_quiz_date" /\ call.returned)
    => /\ now.tod < call.daily_quiz_reset_time => call.date = now.date - 1
       /\ now.tod >= call.daily_quiz_reset_time => call.date = now.date
       /\ (call.daily_quiz_reset_time = 4 * 3600 /\ now.tod = 3 * 3600 + 59 * 60 + 59)
          => call.date = now.date - 1
       /\ (call.daily_quiz_reset_time = 4 * 3600 /\ now.tod = 4 * 3600)
          => call.date = now.date

\* a call at 04:00:00 on the first of January with the reset at 04:00:00
C11_witness ==
    /\ call.fn = "get_current_quiz_date"
    /\ call.returned
    /\ call.daily_quiz_reset_time = 4 * 3600
    /\ now = [date |-> toordinal(2024, 1, 1), tod |-> 4 * 3600]
    /\ call.date = toordinal(2024, 1, 1)

-----------------------------------------------------------------------------
(* Properties of the tables *)

IsPrefix(s, t) == Len(s) <= Len(t) /\ SubSeq(t, 1, Len(s)) = s

\* C12: no operation removes or modifies a stored UserStartQuizTimestamp or
\* Answer, and none removes a Quiz: each step leaves the rows of the two logs
\* in place, adding at the end only, and keeps every quiz.
C12_append_only ==
    [][ /\ IsPrefix(timestamps, timestamps')
        /\ IsPrefix(answers, answers')
        /\ Len(quizzes) <= Len(quizzes')
        /\ \A i \in 1..Len(quizzes) : quizzes'[i].id = quizzes[i].id ]_vars

\* mystats of a user whose view and two answers are stored, next to a quiz
\* that updatequiz has changed
C12_witness ==
    /\ last.op = "mystats"
    /\ last.outcome = "Stats"
    /\ Len(timestamps) >= 1
    /\ Len(answers) >= 2
    /\ \E i \in 1..Len(quizzes) : quizzes[i].clip = "clipB"

-----------------------------------------------------------------------------
(* Properties of the matcher *)

\* a call of the matcher, with the flags of answerquiz, has returned
AnswerquizMatchReturned ==
    /\ call.fn = "process_user_input"
    /\ call.returned
    /\ ~call.partial_match
    /\ call.swap_words

\* the verdict of answerquiz's match for a guess and a canonical answer
Verdict(guess, canonical) ==
    re_search(process_user_input(guess, FALSE, TRUE), canonical)

\* C13: the verdict of answerquiz's match is the same when letters of the
\* guess or of the canonical answer are changed to their other case: it is
\* the verdict for the guess and the canonical answer in lower case.
C13_case_insensitive ==
    AnswerquizMatchReturned
    => call.verdict = Verdict(str_lower(call.input_str), str_lower(call.text))

\* the places of the spaces of a text, and the text from a to b
Spaces(s) == {i \in 1..Len(s) : s[i] = 32}

\* the two words of a text with one space, in the other order
Swapped(s) ==
    LET i == CHOOSE j \in Spaces(s) : TRUE
    IN  SubSeq(s, i + 1, Len(s)) \o <<32>> \o SubSeq(s, 1, i - 1)

\* C14: for a guess of exactly two words "t1 t2", the pattern of
\* process_user_input with swap_words matches a canonical answer exactly
\* when the pattern of "t1 t2" or the pattern of "t2 t1" matches it; the
\* verdict for "t1 t2" is the verdict for "t2 t1".
C14_swap_two_words ==
    ( /\ call.fn = "process_user_input"
      /\ call.returned
      /\ call.swap_words
      /\ Cardinality(Spaces(call.input_str)) = 1 )
    => /\ call.verdict =
            ( \/ re_search(generate_regex_pattern(call.input_str, call.partial_match),
                           call.text)
              \/ re_search(generate_regex_pattern(Swapped(call.input_str),
                                                  call.partial_match), call.text) )
       /\ call.verdict =
            re_search(process_user_input(Swapped(call.input_str), call.partial_match,
                                         TRUE), call.text)

\* "hayami saori" is accepted for "saori hayami"
C14_witness ==
    /\ AnswerquizMatchReturned
    /\ call.input_str = U("hayami saori")
    /\ call.text = U("saori hayami")
    /\ call.verdict

\* the words of a text between its spaces, as str.split(" ") gives them
NumberOfWords(s) == Cardinality(Spaces(s)) + 1

\* a text of three words "A B C" together with "C B A"
ReversedThree(s, t) ==
    /\ Cardinality(Spaces(s)) = 2
    /\ LET i == CHOOSE j \in Spaces(s) : \A k \in Spaces(s) : j <= k
           j == CHOOSE j \in Spaces(s) : \A k \in Spaces(s) : k <= j
           A == SubSeq(s, 1, i - 1)
           B == SubSeq(s, i + 1, j - 1)
           C == SubSeq(s, j + 1, Len(s))
       IN  A # C /\ t = C \o <<32>> \o B \o <<32>> \o A

Normalized(input_str) == apply_regex_rules(escape_and_replace(str_lower(input_str)))

\* the places of a text where a match of the normalized guess from place i ends
MatchEnds(input_str, text, i) == ends_alts(re_parse(Normalized(input_str)), text, {i})

\* the normalized guess accounts for the whole text
WholeText(input_str, text) == Len(text) \in MatchEnds(input_str, text, 0)

\* the text has a match of the normalized guess somewhere
Contained(input_str, text) ==
    \E i \in 0..Len(text) : MatchEnds(input_str, text, i) # {}

\* C16: a pattern compiled with partial_match = False accepts a canonical
\* answer only if the normalized guess accounts for the whole of its text;
\* one compiled with partial_match = True accepts every canonical answer
\* that contains a match of the normalized guess; hence the non-partial
\* form of answerquiz refuses a guess that matches only a proper part.
C16_partial_and_full_match ==
    ( /\ call.fn = "process_user_input"
      /\ call.returned
      /\ NumberOfWords(call.input_str) # 2 )
    => /\ (~call.partial_match /\ call.verdict) => WholeText(call.input_str, call.text)
       /\ (call.partial_match /\ Contained(call.input_str, call.text)) => call.verdict
       /\ ( /\ ~call.partial_match
            /\ Contained(call.input_str, call.text)
            /\ ~WholeText(call.input_str, call.text) ) => ~call.verdict

\* a text of letters of either case and single spaces
LettersAndSingleSpaces(s) ==
    /\ \A i \in 1..Len(s) : s[i] = 32 \/ s[i] \in 65..90 \/ s[i] \in 97..122
    /\ \A i \in 1..(Len(s) - 1) : ~(s[i] = 32 /\ s[i + 1] = 32)

\* C17: a guess that is the canonical answer itself, made of letters of
\* either case and single spaces, is judged correct by the non-partial
\* pattern with word swap.
C17_identical_guess_correct ==
    ( /\ AnswerquizMatchReturned
      /\ LettersAndSingleSpaces(call.input_str)
      /\ call.text = call.input_str )
    => call.verdict

\* the rules whose input is a base letter or a digraph of base letters
LetterRules ==
    {k \in 1..Len(ANIME_REGEX_REPLACE_RULES) :
        \A j \in 1..Len(ANIME_REGEX_REPLACE_RULES[k].input) :
            ANIME_REGEX_REPLACE_RULES[k].input[j] \in 97..122}

\* v is one of the variants that the replacement of rule k lists
ListedVariant(k, v) ==
    Len(v) \in ends_alts(re_parse(ANIME_REGEX_REPLACE_RULES[k].replace), v, {0})

\* text is the guess with the occurrence at place i of the input of rule k
\* replaced by a variant that the rule lists
VariantAt(input_str, text, k, i) ==
    LET input == ANIME_REGEX_REPLACE_RULES[k].input
        m == Len(text) - Len(input_str) + Len(input)
    IN  /\ occurs_at(input_str, i, input, FALSE)
        /\ m >= 1
        /\ SubSeq(text, 1, i - 1) = SubSeq(input_str, 1, i - 1)
        /\ SubSeq(text, i + m, Len(text))
              = SubSeq(input_str, i + Len(input), Len(input_str))
        /\ ListedVariant(k, SubSeq(text, i, i + m - 1))

VariantOf(input_str, text) ==
    \E k \in LetterRules : \E i \in 1..Len(input_str) :
        VariantAt(input_str, text, k, i)

\* C18: for a guess written with base letters, the non-partial pattern
\* accepts every canonical answer obtained from the guess by replacing one
\* occurrence of a base letter or digraph by a variant listed in the
\* replacement of the rule of that letter or digraph.
C18_listed_variants_accepted ==
    ( /\ AnswerquizMatchReturned
      /\ \A i \in 1..Len(call.input_str) : call.input_str[i] \in 97..122
      /\ VariantOf(call.input_str, call.text) )
    => call.verdict

\* the rule of the separator between words
SeparatorRule ==
    CHOOSE k \in 1..Len(ANIME_REGEX_REPLACE_RULES) :
        ANIME_REGEX_REPLACE_RULES[k].input = <<32>>

\* two spaces, or one decorative symbol of the separator rule with an
\* optional space on each side
OtherSeparator(sep) ==
    \/ sep = <<32, 32>>
    \/ sep # <<32>> /\ ListedVariant(SeparatorRule, sep)

\* text is the two words of the guess with another separator between them
SeparatorVariantOf(input_str, text) ==
    /\ Cardinality(Spaces(input_str)) = 1
    /\ LET i == CHOOSE j \in Spaces(input_str) : TRUE
           m == Len(text) - Len(input_str) + 1
       IN  /\ m >= 1
           /\ SubSeq(text, 1, i - 1) = SubSeq(input_str, 1, i - 1)
           /\ SubSeq(text, i + m, Len(text)) = SubSeq(input_str, i + 1, Len(input_str))
           /\ OtherSeparator(SubSeq(text, i, i + m - 1))

\* C19: a guess of two words with one space between them is judged correct
\* against the canonical answer that has the two words separated by two
\* spaces, and against the one that has them separated by one decorative
\* symbol of the separator rule with an optional space on each side.
C19_spacing_tolerance ==
    ( /\ AnswerquizMatchReturned
      /\ SeparatorVariantOf(call.input_str, call.text) )
    => call.verdict

\* C20: when there is no quiz of the chosen type on the current quiz date,
\* answerquiz reports it and ends there: no handler goes on past the report
\* to look at the missing quiz, and none raises a fault on it.
C20_no_quiz_ends_handler ==
    ~( /\ last.op = "answerquiz"
       /\ last.outcome = "AttributeError_id" )

\* the users of the table that have the id
UsersWithId(tbl, user_id) == {u \in tbl : u.id = user_id}

\* C21: get_user_from_id returns the user that has the id when there is
\* one; when there is none it creates one user, not admin, if
\* add_if_not_exist is true and a name is given, raises and creates nothing
\* if add_if_not_exist is true and no name is given, and returns None and
\* creates nothing if add_if_not_exist is false; after every call the table
\* has at most one user per id.
C21_get_user_from_id ==
    [][ (call'.fn = "get_user_from_id" /\ call'.returned)
        => LET found == UsersWithId(users, call'.user_id)
               created == [id |-> call'.user_id, name |-> call'.user_name,
                           is_admin |-> FALSE]
           IN  /\ found # {}
                    => call'.user = found /\ ~call'.raised /\ users' = users
               /\ (found = {} /\ call'.add_if_not_exist /\ call'.user_name # "")
                    => /\ call'.user = {created}
                       /\ ~call'.raised
                       /\ users' = users \cup {created}
                       /\ Cardinality(users') = Cardinality(users) + 1
               /\ (found = {} /\ call'.add_if_not_exist /\ call'.user_name = "")
                    => call'.raised /\ users' = users
               /\ (found = {} /\ ~call'.add_if_not_exist)
                    => call'.user = {} /\ ~call'.raised /\ users' = users
               /\ \A user_id \in FnUserIds :
                     Cardinality(UsersWithId(users', user_id)) <= 1 ]_vars

\* after several calls: both unknown ids have a user, and the last call,
\* for an id that has a user and with another name, returned that user
C21_witness ==
    /\ call.fn = "get_user_from_id"
    /\ call.returned
    /\ call.user_id = 2
    /\ call.user_name = "bob"
    /\ call.user = {[id |-> 2, name |-> "alice", is_admin |-> FALSE]}
    /\ Cardinality(users) = 3

\* C22: a newquiz or updatequiz call of a user who is not flagged admin in
\* the store is refused and leaves the quiz instances, with their clips and
\* answers, as they were.
C22_only_admins_change_schedule ==
    [][ \A u \in DiscordUsers :
          ( /\ ~IsAdminUser(u)
            /\ \/ \E t \in QuizTypes, c \in NewContents : new_quiz(u, t, c.clip, c.answer)
               \/ \E d \in DateTexts, t \in QuizTypes, c \in UpdateContents :
                     update_quiz(u, d, t, c.clip, c.answer) )
          => (quizzes' = quizzes /\ last'.outcome = "NotAdmin") ]_vars

\* a user who is in the store without the admin flag has been refused an
\* updatequiz while a quiz was planned
C22_witness ==
    /\ last = Resp("updatequiz", 2, "NotAdmin")
    /\ \E a \in users : a.id = 2 /\ ~a.is_admin
    /\ Len(quizzes) >= 1

\* C23: the planned quizzes of a category have no gap: when the latest
\* instance of a category is dated M, and M is not before the current quiz
\* date D, the category has an instance for every date from D to M.
C23_no_gap_in_planned_quizzes ==
    \A t \in QuizTypes :
        (DatesOf(t) # {} /\ Latest(DatesOf(t)) >= CurrentQuizDate)
        => \A d \in CurrentQuizDate..Latest(DatesOf(t)) : d \in DatesOf(t)

\* a category has the quiz of the current quiz date and the one of the day
\* after
C23_witness ==
    \E t \in QuizTypes :
        /\ Cardinality(DatesOf(t)) = 2
        /\ Latest(DatesOf(t)) = CurrentQuizDate + 1
        /\ last.op = "newquiz"

\* the instances of a category, in the order of their creation, have
\* increasing dates
CreationOrderIsDateOrder(qs) ==
    \A i, j \in 1..Len(qs) :
        (i < j /\ qs[i].id_type = qs[j].id_type) => qs[i].date < qs[j].date

\* C24: an instance created by newquiz is dated after every instance the
\* category already has and not before the current quiz date of the call;
\* so the instances of a category, in the order of their creation, are in
\* the order of their dates.
C24_newquiz_dates_increase ==
    [][ \A u \in DiscordUsers, t \in QuizTypes, c \in NewContents :
          (new_quiz(u, t, c.clip, c.answer) /\ Len(quizzes') = Len(quizzes) + 1)
          => LET new == quizzes'[Len(quizzes')]
             IN  /\ \A d \in DatesOf(t) : d < new.date
                 /\ new.date >= CurrentQuizDate
                 /\ CreationOrderIsDateOrder(quizzes') ]_vars

\* the second quiz of a category was created after the quiz date advanced
\* past the first one
C24_witness ==
    /\ last = Resp("newquiz", DEFAULT_ADMIN_ID, "Created")
    /\ \E t \in QuizTypes : DatesOf(t) = {CurrentQuizDate - 1, CurrentQuizDate}
    /\ CreationOrderIsDateOrder(quizzes)

\* C25: an updatequiz that succeeds replaces the clip and the answer of the
\* one instance of the category and date given; the date, category and
\* creator of that instance, every other instance, the view records, the
\* answers and the users stay as they were, and no instance is created.
C25_updatequiz_frame ==
    [][ \A u \in DiscordUsers, d \in DateTexts, t \in QuizTypes, c \in UpdateContents :
          (last' = Resp("updatequiz", u.id, "Updated") /\ update_quiz(u, d, t, c.clip, c.answer))
          => /\ Len(quizzes') = Len(quizzes)
             /\ \E k \in 1..Len(quizzes) :
                   /\ quizzes[k].id_type = t
                   /\ quizzes[k].date = ParsedDate[d].date
                   /\ quizzes'[k] = [quizzes[k] EXCEPT !.clip = c.clip,
                                                       !.answer = c.answer]
                   /\ \A i \in 1..Len(quizzes) : i # k => quizzes'[i] = quizzes[i]
             /\ timestamps' = timestamps
             /\ answers' = answers
             /\ users' = users ]_vars

\* of the two quizzes of a category, the planned one has been updated and
\* the one of the day has its clip
C25_witness ==
    /\ last = Resp("updatequiz", DEFAULT_ADMIN_ID, "Updated")
    /\ Len(quizzes) = 2
    /\ quizzes[1].id_type = quizzes[2].id_type
    /\ quizzes[1].clip = "clipA"
    /\ quizzes[2].clip = "clipB"
    /\ Len(timestamps) >= 1

\* C26: a click on a play button records the view against the quiz
\* instance whose date is the current quiz date at the time of the click,
\* also on a later quiz day than the one on which the process started.
C26_view_of_the_quiz_of_the_day ==
    \A k \in 1..Len(timestamps) :
        quizzes[timestamps[k].quiz_id].date
            = quiz_date_at(timestamps[k].timestamp, DAILY_QUIZ_RESET_TIME)

\* a view record, an Answer, or an Answer that a handler is about to store
\* refers to the quiz
Referenced(quiz_id) ==
    \/ \E k \in 1..Len(timestamps) : timestamps[k].quiz_id = quiz_id
    \/ \E k \in 1..Len(answers) : answers[k].quiz_id = quiz_id
    \/ \E h \in BagToSet(pending) : h.at = "verdict" /\ h.user_answer.quiz_id = quiz_id

\* C27: a quiz instance that a view record or an Answer refers to is dated
\* on or before the current quiz date, and its clip and its canonical
\* answer do not change from then on.
C27_referenced_quiz_is_frozen ==
    [][ \A i \in 1..Len(quizzes) :
          Referenced(quizzes[i].id)
          => /\ quizzes[i].date <= CurrentQuizDate
             /\ quizzes'[i].clip = quizzes[i].clip
             /\ quizzes'[i].answer = quizzes[i].answer ]_vars

\* the quiz of the day has a view and an Answer, and the planned quiz of
\* the category has been updated since
C27_witness ==
    /\ last = Resp("updatequiz", DEFAULT_ADMIN_ID, "Updated")
    /\ Len(quizzes) = 2
    /\ Referenced(quizzes[1].id)
    /\ Len(answers) >= 1
    /\ quizzes[1].answer = "saori hayami"
    /\ quizzes[2].answer = "rie"

\* the seconds from the view of the quiz by the user to the moment t
SecondsSinceView(user_id, quiz_id, t) ==
    LET view == timestamps[Min(start_timestamps(user_id, quiz_id))].timestamp
    IN  (t.date - view.date) * 24 * 3600 + (t.tod - view.tod)

\* C28: the Answer of an answerquiz call that is judged carries the time of
\* the start of the call minus the timestamp of the user's view of the
\* quiz, which is not negative; the verdict is the match of the guess with
\* the canonical answer whatever that time is; the Answer is stored with
\* the time it carries.
C28_elapsed_time ==
    [][ /\ \A u \in Players, t \in QuizTypes, g \in Guesses :
             ( /\ last'.op = "answerquiz"
               /\ last'.outcome \in {"Correct", "Incorrect"}
               /\ anwswer_quiz(u, t, g) )
             => LET quiz == quiz_on(t, CurrentQuizDate)
                    elapsed == SecondsSinceView(u.id, quiz, now)
                    verdict == IsMatch[g, quizzes[quiz].answer]
                IN  /\ start_timestamps(u.id, quiz) # {}
                    /\ elapsed >= 0
                    /\ last'.outcome = IF verdict THEN "Correct" ELSE "Incorrect"
                    /\ pending' = pending (+) SetToBag({Suspended("verdict", u,
                                      Answer(u.id, quiz, g, elapsed, verdict))})
        /\ \A h \in BagToSet(pending) :
             (h.at = "verdict" /\ anwswer_quiz_resume(h))
             => /\ answers' = Append(answers, h.user_answer)
                /\ h.user_answer.answer_time >= 0 ]_vars

\* an Answer stored with the time from the view at 04:00 to the call at
\* 03:59:59 of the next day
C28_witness ==
    \E k \in 1..Len(answers) :
        /\ answers[k].answer_time = 24 * 3600 - 1
        /\ answers[k].is_correct
        /\ last = Resp("answerquiz", answers[k].user_id, "Stored")

\* an ASCII letter or digit
LetterOrDigit(c) == c \in 48..57 \/ c \in 65..90 \/ c \in 97..122

\* text is the guess of two words with a letter or a digit in the place of
\* the space
SpaceTakenByLetterOrDigit(input_str, text) ==
    /\ Cardinality(Spaces(input_str)) = 1
    /\ Len(text) = Len(input_str)
    /\ LET i == CHOOSE j \in Spaces(input_str) : TRUE
       IN  /\ LetterOrDigit(text[i])
           /\ \A j \in 1..Len(text) : j # i => text[j] = input_str[j]

\* C29: a guess of two words is not accepted for a canonical answer that
\* has an ordinary letter or digit in the place of the space of the guess.
C29_separator_is_not_a_letter ==
    ( /\ AnswerquizMatchReturned
      /\ SpaceTakenByLetterOrDigit(call.input_str, call.text) )
    => ~call.verdict

=============================================================================
